---- MODULE Spec2Model ----
(***************************************************************************)
(* Model of src/do/droplets.go: the `instances` type of the DigitalOcean   *)
(* cloud controller manager (cloudprovider.Instances).                     *)
(*                                                                         *)
(* One invocation of a public method is a short run of steps: the call     *)
(* (local computation up to the first network call), one step per network  *)
(* call (http.Get on the metadata URL, Droplets.Get, Droplets.List) that   *)
(* takes the response from the environment and runs the code up to the     *)
(* next network call or the return, and the return to the caller.          *)
(*                                                                         *)
(* Go strings are sequences of one-character strings (Text), so that       *)
(* strconv.Atoi and strconv.Itoa are computed digit by digit.              *)
(***************************************************************************)
EXTENDS Integers, Sequences, FiniteSets, TLC

VARIABLES
    pc,          \* position of the invocation: idle, http.Get, Droplets.Get, Droplets.List, done
    op,          \* the public method being executed
    nodeName,    \* its types.NodeName / hostname argument
    providerId,  \* the providerId handed to dropletById
    getArg,      \* the integer handed to Droplets.Get
    metaResp,    \* what http.Get(dropletIDMetadataURL) answered
    getResp,     \* what client.Droplets.Get answered
    listResp,    \* what client.Droplets.List answered
    trace,       \* the network calls issued so far in this invocation, in order
    ret          \* the values returned: [addrs, str, err]

vars == <<pc, op, nodeName, providerId, getArg, metaResp, getResp, listResp, trace, ret>>

----------------------------------------------------------------------------
(* Bounds of the model *)

\* longest list client.Droplets.List answers with
MaxList == 2
\* most entries in a droplet's Networks.V4
MaxNets == 2

----------------------------------------------------------------------------
(* Program constants *)

\* http.StatusOK
StatusOK == 200

----------------------------------------------------------------------------
(* Values *)

SeqsUpTo(S, n) == UNION {[1..k -> S] : k \in 0..n}

EmptyText == <<>>

\* node names: two that differ only in case, and one that is a number
NameLower == <<"n", "a">>
NameUpper == <<"N", "a">>
NameDigit == <<"7">>
NodeNames == {NameLower, NameUpper, NameDigit}
DropletNames == {NameLower, NameUpper}

DropletIDs == {7, 42}
SizeSlugs == {<<"s", "1">>, <<"s", "2">>}

PrivateAddr == <<"1", "0", ".", "5">>
PublicAddr == <<"2", "0", "3", ".", "9">>

\* provider ids and metadata bodies: numeric, signed, and not numeric
ProviderIds ==
    { <<"7">>, <<"4", "2">>, <<"-", "7">>, <<"+", "7">>,
      <<"a", "b", "c">>, <<"4", "x">>, <<"-">>, EmptyText }

\* godo.NetworkV4: Type and IPAddress
NetworkV4s == [Type : {"private", "public"}, IPAddress : {EmptyText, PrivateAddr, PublicAddr}]
V4Entries ==
    { v \in NetworkV4s : v.IPAddress = EmptyText
                         \/ (v.Type = "private" /\ v.IPAddress = PrivateAddr)
                         \/ (v.Type = "public" /\ v.IPAddress = PublicAddr) }

\* godo.Droplet.Networks: a nil pointer, or the V4 list
NilNetworks == [nil |-> TRUE, V4 |-> <<>>]
AllNetworks == {NilNetworks} \cup {[nil |-> FALSE, V4 |-> s] : s \in SeqsUpTo(V4Entries, MaxNets)}
FullNetworks ==
    [nil |-> FALSE,
     V4 |-> << [Type |-> "private", IPAddress |-> PrivateAddr],
               [Type |-> "public", IPAddress |-> PublicAddr] >>]

\* godo.Droplet, the fields the code reads
Droplets == [ID : DropletIDs, Name : DropletNames, SizeSlug : SizeSlugs, Networks : AllNetworks]
\* the records a list answer is drawn from: with both addresses, or with no networks
ListDroplets == {d \in Droplets : d.Networks \in {NilNetworks, FullNetworks}}
NoDroplet == [ID |-> 0, Name |-> EmptyText, SizeSlug |-> EmptyText, Networks |-> NilNetworks]

Statuses == {StatusOK, 404}

\* (resp, err) of http.Get and the outcome of reading resp.Body
NoMetaResp == [err |-> FALSE, StatusCode |-> 0, body |-> EmptyText, readErr |-> FALSE]
MetaResponses ==
    { [err |-> TRUE, StatusCode |-> 0, body |-> EmptyText, readErr |-> FALSE] }
    \cup [err : {FALSE}, StatusCode : Statuses, body : ProviderIds, readErr : BOOLEAN]

\* (droplet, resp, err) of client.Droplets.Get
NoGetResp == [err |-> FALSE, StatusCode |-> 0, droplet |-> NoDroplet]
GetResponses ==
    { [err |-> TRUE, StatusCode |-> 0, droplet |-> NoDroplet] }
    \cup [err : {FALSE}, StatusCode : Statuses, droplet : Droplets]

\* (droplets, resp, err) of client.Droplets.List
NoListResp == [err |-> FALSE, StatusCode |-> 0, droplets |-> <<>>]
ListResponses ==
    { [err |-> TRUE, StatusCode |-> 0, droplets |-> <<>>] }
    \cup [err : {FALSE}, StatusCode : Statuses, droplets : SeqsUpTo(ListDroplets, MaxList)]

\* error values; "nil" is no error
NoErr == "nil"
NoRet == [addrs |-> <<>>, str |-> EmptyText, err |-> NoErr]

----------------------------------------------------------------------------
(* strconv *)

Digits == <<"0", "1", "2", "3", "4", "5", "6", "7", "8", "9">>
IsDigit(c) == \E i \in 1..10 : Digits[i] = c
DigitVal(c) == (CHOOSE i \in 1..10 : Digits[i] = c) - 1

RECURSIVE ParseDigits(_, _)
ParseDigits(s, acc) ==
    IF s = <<>> THEN acc ELSE ParseDigits(Tail(s), acc * 10 + DigitVal(Head(s)))

RECURSIVE LeadingDigits(_)
LeadingDigits(s) ==
    IF s = <<>> \/ ~IsDigit(Head(s)) THEN <<>> ELSE <<Head(s)>> \o LeadingDigits(Tail(s))

\* Atoi that stops at the first character that is no digit, as C's atoi does
Atoi_LeadingDigits(s) ==
    LET signed == s # <<>> /\ Head(s) \in {"+", "-"}
        digits == LeadingDigits(IF signed THEN Tail(s) ELSE s)
    IN  IF digits = <<>>
        THEN [val |-> 0, err |-> TRUE]
        ELSE [val |-> IF signed /\ Head(s) = "-"
                      THEN 0 - ParseDigits(digits, 0)
                      ELSE ParseDigits(digits, 0),
              err |-> FALSE]

\* strconv.Atoi: an optional sign, then one or more decimal digits
Atoi(s) ==
    LET signed == s # <<>> /\ Head(s) \in {"+", "-"}
        digits == IF signed THEN Tail(s) ELSE s
    IN  IF digits = <<>> \/ \E i \in 1..Len(digits) : ~IsDigit(digits[i])
        THEN [val |-> 0, err |-> TRUE]
        ELSE [val |-> IF signed /\ Head(s) = "-"
                      THEN 0 - ParseDigits(digits, 0)
                      ELSE ParseDigits(digits, 0),
              err |-> FALSE]

RECURSIVE FormatDigits(_)
FormatDigits(n) ==
    IF n < 10 THEN <<Digits[n + 1]>>
    ELSE Append(FormatDigits(n \div 10), Digits[(n % 10) + 1])

\* strconv.Itoa
Itoa(n) == IF n < 0 THEN <<"-">> \o FormatDigits(0 - n) ELSE FormatDigits(n)

----------------------------------------------------------------------------
(* godo.Droplet accessors called by the code.  Their bodies belong to the   *)
(* godo library: a nil Networks is an error, otherwise the IPAddress of the *)
(* first V4 entry of the wanted Type, or "" when there is none.             *)

\* the first V4 entry of the given type, as the accessors scan for it
RECURSIVE FirstOfType(_, _)
FirstOfType(v4, type) ==
    IF v4 = <<>> THEN EmptyText
    ELSE IF Head(v4).Type = type THEN Head(v4).IPAddress
    ELSE FirstOfType(Tail(v4), type)

\* droplet.PrivateIPv4(): (ip, err)
PrivateIPv4(d) ==
    IF d.Networks.nil THEN [ip |-> EmptyText, err |-> TRUE]
    ELSE [ip |-> FirstOfType(d.Networks.V4, "private"), err |-> FALSE]

\* droplet.PublicIPv4(): (ip, err)
PublicIPv4(d) ==
    IF d.Networks.nil THEN [ip |-> EmptyText, err |-> TRUE]
    ELSE [ip |-> FirstOfType(d.Networks.V4, "public"), err |-> FALSE]

----------------------------------------------------------------------------
(* The code between the network calls *)

\* httpGet without the check of resp.StatusCode
httpGet_StatusIgnored(resp) ==
    IF resp.err THEN [val |-> EmptyText, err |-> "http.Get error"]
    ELSE IF resp.readErr THEN [val |-> EmptyText, err |-> "ioutil.ReadAll error"]
    ELSE [val |-> resp.body, err |-> NoErr]

\* httpGet, from the answer of http.Get on: (string, error)
httpGet(resp) ==
    IF resp.err THEN [val |-> EmptyText, err |-> "http.Get error"]
    ELSE IF resp.StatusCode # StatusOK
    THEN [val |-> EmptyText, err |-> "droplet metadata returned non-200 status code"]
    ELSE IF resp.readErr THEN [val |-> EmptyText, err |-> "ioutil.ReadAll error"]
    ELSE [val |-> resp.body, err |-> NoErr]

\* dropletID
dropletID(resp) == httpGet(resp)

\* dropletById without the check of resp.StatusCode
dropletById_StatusIgnored(resp) ==
    IF resp.err THEN [droplet |-> NoDroplet, err |-> "Droplets.Get error"]
    ELSE [droplet |-> resp.droplet, err |-> NoErr]

\* dropletById, from the answer of Droplets.Get on: (*godo.Droplet, error)
dropletById(resp) ==
    IF resp.err THEN [droplet |-> NoDroplet, err |-> "Droplets.Get error"]
    ELSE IF resp.StatusCode # StatusOK
    THEN [droplet |-> NoDroplet, err |-> "DO API returned non-200 status code"]
    ELSE [droplet |-> resp.droplet, err |-> NoErr]

\* the range loop that keeps going and ends with the last droplet of that name
RECURSIVE FindByName_Last(_, _)
FindByName_Last(droplets, name) ==
    IF droplets = <<>> THEN [droplet |-> NoDroplet, err |-> "InstanceNotFound"]
    ELSE LET rest == FindByName_Last(Tail(droplets), name)
         IN  IF rest.err = NoErr THEN rest
             ELSE IF Head(droplets).Name = name THEN [droplet |-> Head(droplets), err |-> NoErr]
             ELSE rest

\* the range loop of dropletByName: the first droplet whose Name is nodeName
RECURSIVE FindByName(_, _)
FindByName(droplets, name) ==
    IF droplets = <<>> THEN [droplet |-> NoDroplet, err |-> "InstanceNotFound"]
    ELSE IF Head(droplets).Name = name THEN [droplet |-> Head(droplets), err |-> NoErr]
    ELSE FindByName(Tail(droplets), name)

\* dropletByName without the check of resp.StatusCode
dropletByName_StatusIgnored(resp, name) ==
    IF resp.err THEN [droplet |-> NoDroplet, err |-> "Droplets.List error"]
    ELSE FindByName(resp.droplets, name)

\* dropletByName, from the answer of Droplets.List on: (*godo.Droplet, error)
dropletByName(resp, name) ==
    IF resp.err THEN [droplet |-> NoDroplet, err |-> "Droplets.List error"]
    ELSE IF resp.StatusCode # StatusOK
    THEN [droplet |-> NoDroplet, err |-> "DO API returned non-200 status code"]
    ELSE FindByName(resp.droplets, name)

NodeAddress(type, address) == [Type |-> type, Address |-> address]

\* the addresses with the external address appended before the internal one
BuildAddresses_ExternalFirst(droplet) ==
    LET a1 == <<NodeAddress("Hostname", droplet.Name)>>
        private == PrivateIPv4(droplet)
        public == PublicIPv4(droplet)
        a2 == Append(a1, NodeAddress("ExternalIP", public.ip))
        a3 == Append(a2, NodeAddress("InternalIP", private.ip))
    IN  IF private.err \/ private.ip = EmptyText
        THEN [addrs |-> <<>>, str |-> EmptyText, err |-> "could not get private ip"]
        ELSE IF public.err \/ public.ip = EmptyText
        THEN [addrs |-> <<>>, str |-> EmptyText, err |-> "could not get public ip"]
        ELSE [addrs |-> a3, str |-> EmptyText, err |-> NoErr]

\* the failing returns hand back the addresses accumulated so far instead of nil
BuildAddresses_Partial(droplet) ==
    LET a1 == <<NodeAddress("Hostname", droplet.Name)>>
        private == PrivateIPv4(droplet)
        a2 == Append(a1, NodeAddress("InternalIP", private.ip))
        public == PublicIPv4(droplet)
        a3 == Append(a2, NodeAddress("ExternalIP", public.ip))
    IN  IF private.err \/ private.ip = EmptyText
        THEN [addrs |-> a1, str |-> EmptyText, err |-> "could not get private ip"]
        ELSE IF public.err \/ public.ip = EmptyText
        THEN [addrs |-> a2, str |-> EmptyText, err |-> "could not get public ip"]
        ELSE [addrs |-> a3, str |-> EmptyText, err |-> NoErr]

\* NodeAddressesByProviderID after dropletById: ([]v1.NodeAddress, error)
BuildAddresses(droplet) ==
    LET a1 == <<NodeAddress("Hostname", droplet.Name)>>
        private == PrivateIPv4(droplet)
        a2 == Append(a1, NodeAddress("InternalIP", private.ip))
        public == PublicIPv4(droplet)
        a3 == Append(a2, NodeAddress("ExternalIP", public.ip))
    IN  IF private.err \/ private.ip = EmptyText
        THEN [addrs |-> <<>>, str |-> EmptyText, err |-> "could not get private ip"]
        ELSE IF public.err \/ public.ip = EmptyText
        THEN [addrs |-> <<>>, str |-> EmptyText, err |-> "could not get public ip"]
        ELSE [addrs |-> a3, str |-> EmptyText, err |-> NoErr]

\* a return of (nil or "", err)
Fail(e) == [addrs |-> <<>>, str |-> EmptyText, err |-> e]

\* a return of (s, nil)
Text(s) == [addrs |-> <<>>, str |-> s, err |-> NoErr]

\* what a by-id method returns once dropletById has answered
ByIdReturn(method, resp) ==
    LET r == dropletById(resp)
    IN  IF r.err # NoErr THEN Fail(r.err)
        ELSE IF method = "InstanceTypeByProviderID" THEN Text(r.droplet.SizeSlug)
        ELSE BuildAddresses(r.droplet)

\* the by-name methods refusing a droplet whose addresses BuildAddresses would refuse
ByNameReturn_AddressesRequired(method, resp, name) ==
    LET r == dropletByName(resp, name)
    IN  IF r.err # NoErr THEN Fail(r.err)
        ELSE IF BuildAddresses(r.droplet).err # NoErr THEN Fail(BuildAddresses(r.droplet).err)
        ELSE IF method = "InstanceType" THEN Text(r.droplet.SizeSlug)
        ELSE Text(Itoa(r.droplet.ID))

\* what a by-name method returns once dropletByName has answered
ByNameReturn(method, resp, name) ==
    LET r == dropletByName(resp, name)
    IN  IF r.err # NoErr THEN Fail(r.err)
        ELSE IF method = "InstanceType" THEN Text(r.droplet.SizeSlug)
        ELSE Text(Itoa(r.droplet.ID))

----------------------------------------------------------------------------
(* State machine *)

TypeOK ==
    /\ pc \in {"idle", "http.Get", "Droplets.Get", "Droplets.List", "done"}
    /\ nodeName \in NodeNames \cup {EmptyText}
    /\ providerId \in ProviderIds
    /\ metaResp \in MetaResponses \cup {NoMetaResp}
    /\ getResp \in GetResponses \cup {NoGetResp}
    /\ listResp \in ListResponses \cup {NoListResp}

Init ==
    /\ pc = "idle"
    /\ op = "none"
    /\ nodeName = EmptyText
    /\ providerId = EmptyText
    /\ getArg = 0
    /\ metaResp = NoMetaResp
    /\ getResp = NoGetResp
    /\ listResp = NoListResp
    /\ trace = <<>>
    /\ ret = NoRet

\* the start of dropletById(id): strconv.Atoi, then on to Droplets.Get
EnterDropletById(id) ==
    /\ providerId' = id
    /\ IF Atoi(id).err
       THEN /\ pc' = "done"
            /\ ret' = Fail("error converting droplet id to string")
            /\ getArg' = getArg
       ELSE /\ pc' = "Droplets.Get"
            /\ ret' = ret
            /\ getArg' = Atoi(id).val

\* NodeAddresses(name) is called: on to dropletID()
NodeAddresses(name) ==
    /\ pc = "idle"
    /\ op' = "NodeAddresses"
    /\ nodeName' = name
    /\ pc' = "http.Get"
    /\ UNCHANGED <<providerId, getArg, metaResp, getResp, listResp, trace, ret>>

\* NodeAddresses handing its name argument, not the fetched id, to
\* NodeAddressesByProviderID
HttpGet_ByNodeName ==
    /\ pc = "http.Get"
    /\ \E resp \in MetaResponses :
         /\ metaResp' = resp
         /\ trace' = Append(trace, "http.Get")
         /\ LET self == dropletID(resp)
            IN  IF self.err # NoErr
                THEN /\ pc' = "done"
                     /\ ret' = Fail(self.err)
                     /\ UNCHANGED <<providerId, getArg>>
                ELSE EnterDropletById(nodeName)
    /\ UNCHANGED <<op, nodeName, getResp, listResp>>

\* http.Get answers; NodeAddresses returns the error or calls
\* NodeAddressesByProviderID(selfDropletID)
HttpGet ==
    /\ pc = "http.Get"
    /\ \E resp \in MetaResponses :
         /\ metaResp' = resp
         /\ trace' = Append(trace, "http.Get")
         /\ LET self == dropletID(resp)
            IN  IF self.err # NoErr
                THEN /\ pc' = "done"
                     /\ ret' = Fail(self.err)
                     /\ UNCHANGED <<providerId, getArg>>
                ELSE EnterDropletById(self.val)
    /\ UNCHANGED <<op, nodeName, getResp, listResp>>

\* NodeAddressesByProviderID(providerId) is called
NodeAddressesByProviderID(id) ==
    /\ pc = "idle"
    /\ op' = "NodeAddressesByProviderID"
    /\ EnterDropletById(id)
    /\ UNCHANGED <<nodeName, metaResp, getResp, listResp, trace>>

\* InstanceTypeByProviderID(providerId) is called
InstanceTypeByProviderID(id) ==
    /\ pc = "idle"
    /\ op' = "InstanceTypeByProviderID"
    /\ EnterDropletById(id)
    /\ UNCHANGED <<nodeName, metaResp, getResp, listResp, trace>>

\* Droplets.Get issued again after a failed answer
DropletsGet_Retry ==
    /\ pc = "Droplets.Get"
    /\ \E resp \in GetResponses :
         /\ getResp' = resp
         /\ trace' = Append(trace, "Droplets.Get")
         /\ ret' = ByIdReturn(op, resp)
         /\ pc' = IF dropletById(resp).err # NoErr THEN "Droplets.Get" ELSE "done"
    /\ UNCHANGED <<op, nodeName, providerId, getArg, metaResp, listResp>>

\* client.Droplets.Get answers; the by-id method runs to its return
DropletsGet ==
    /\ pc = "Droplets.Get"
    /\ \E resp \in GetResponses :
         /\ getResp' = resp
         /\ trace' = Append(trace, "Droplets.Get")
         /\ ret' = ByIdReturn(op, resp)
    /\ pc' = "done"
    /\ UNCHANGED <<op, nodeName, providerId, getArg, metaResp, listResp>>

\* a by-name method is called: on to Droplets.List
EnterDropletByName(method, name) ==
    /\ pc = "idle"
    /\ op' = method
    /\ nodeName' = name
    /\ pc' = "Droplets.List"
    /\ UNCHANGED <<providerId, getArg, metaResp, getResp, listResp, trace, ret>>

\* ExternalID(nodeName): InstanceID under another name
ExternalID(name) == EnterDropletByName("ExternalID", name)

InstanceID(name) == EnterDropletByName("InstanceID", name)

InstanceType(name) == EnterDropletByName("InstanceType", name)

\* client.Droplets.List answers; the by-name method runs to its return
DropletsList ==
    /\ pc = "Droplets.List"
    /\ \E resp \in ListResponses :
         /\ listResp' = resp
         /\ trace' = Append(trace, "Droplets.List")
         /\ ret' = ByNameReturn(op, resp, nodeName)
    /\ pc' = "done"
    /\ UNCHANGED <<op, nodeName, providerId, getArg, metaResp, getResp>>

\* AddSSHKeyToAllInstances(user, keyData): the arguments are not read
AddSSHKeyToAllInstances ==
    /\ pc = "idle"
    /\ op' = "AddSSHKeyToAllInstances"
    /\ pc' = "done"
    /\ ret' = Fail("not implemented yet")
    /\ UNCHANGED <<nodeName, providerId, getArg, metaResp, getResp, listResp, trace>>

\* CurrentNodeName(hostname)
CurrentNodeName(hostname) ==
    /\ pc = "idle"
    /\ op' = "CurrentNodeName"
    /\ nodeName' = hostname
    /\ pc' = "done"
    /\ ret' = Text(hostname)
    /\ UNCHANGED <<providerId, getArg, metaResp, getResp, listResp, trace>>

\* the caller takes the result; the next invocation starts from scratch
Return ==
    /\ pc = "done"
    /\ pc' = "idle"
    /\ op' = "none"
    /\ nodeName' = EmptyText
    /\ providerId' = EmptyText
    /\ getArg' = 0
    /\ metaResp' = NoMetaResp
    /\ getResp' = NoGetResp
    /\ listResp' = NoListResp
    /\ trace' = <<>>
    /\ ret' = NoRet

Next ==
    \/ \E name \in NodeNames : NodeAddresses(name)
    \/ HttpGet
    \/ \E id \in ProviderIds : NodeAddressesByProviderID(id)
    \/ \E id \in ProviderIds : InstanceTypeByProviderID(id)
    \/ DropletsGet
    \/ \E name \in NodeNames : ExternalID(name)
    \/ \E name \in NodeNames : InstanceID(name)
    \/ \E name \in NodeNames : InstanceType(name)
    \/ DropletsList
    \/ AddSSHKeyToAllInstances
    \/ \E hostname \in NodeNames \cup {EmptyText} : CurrentNodeName(hostname)
    \/ Return

Spec == Init /\ [][Next]_vars

----------------------------------------------------------------------------
(* Vocabulary of the properties *)

\* the error kinds of the specification, by the error the code returns
ErrorKind(e) ==
    CASE e \in {"http.Get error", "droplet metadata returned non-200 status code",
                "ioutil.ReadAll error"} -> "MetadataUnavailable"
      [] e = "error converting droplet id to string" -> "InvalidID"
      [] e \in {"Droplets.Get error", "Droplets.List error",
                "DO API returned non-200 status code"} -> "UpstreamError"
      [] e \in {"could not get private ip", "could not get public ip"} -> "MissingAddress"
      [] e = "InstanceNotFound" -> "InstanceNotFound"
      [] e = "not implemented yet" -> "NotImplemented"
      [] OTHER -> "none"

AddressOps == {"NodeAddresses", "NodeAddressesByProviderID"}
ByIdOps == {"NodeAddressesByProviderID", "InstanceTypeByProviderID"}
IdByNameOps == {"InstanceID", "ExternalID"}
ByNameOps == IdByNameOps \cup {"InstanceType"}

Issued(call) == \E i \in 1..Len(trace) : trace[i] = call
Count(call) == Cardinality({i \in 1..Len(trace) : trace[i] = call})

\* text that is an optional sign followed by one or more decimal digits
IsIntegerText(s) ==
    \E k \in {0, 1} :
        /\ Len(s) > k
        /\ k = 1 => s[1] \in {"+", "-"}
        /\ \A i \in (k + 1)..Len(s) : IsDigit(s[i])

\* the integer that integer text denotes
IntegerValue(s) ==
    IF s[1] = "-" THEN 0 - ParseDigits(Tail(s), 0)
    ELSE IF s[1] = "+" THEN ParseDigits(Tail(s), 0)
    ELSE ParseDigits(s, 0)

\* s is the decimal numeral of the natural number n
IsDecimalOf(s, n) ==
    /\ Len(s) >= 1
    /\ \A i \in 1..Len(s) : IsDigit(s[i])
    /\ Len(s) > 1 => s[1] # "0"
    /\ ParseDigits(s, 0) = n

\* the answers of the metadata endpoint and of the Cloud API Client, as received
MetaAnswered == Issued("http.Get")
MetaOK == MetaAnswered /\ ~metaResp.err /\ metaResp.StatusCode = StatusOK /\ ~metaResp.readErr
GetAnswered == Issued("Droplets.Get")
GetOK == GetAnswered /\ ~getResp.err /\ getResp.StatusCode = StatusOK
ListAnswered == Issued("Droplets.List")
ListOK == ListAnswered /\ ~listResp.err /\ listResp.StatusCode = StatusOK

Matches == {i \in 1..Len(listResp.droplets) : listResp.droplets[i].Name = nodeName}
FirstMatch == listResp.droplets[CHOOSE i \in Matches : \A j \in Matches : i <= j]

\* a lookup handed a record to the operation, and which
LookedUp == (op \in ByIdOps \cup {"NodeAddresses"} /\ GetOK) \/ (op \in ByNameOps /\ ListOK /\ Matches # {})
Record == IF op \in ByNameOps THEN FirstMatch ELSE getResp.droplet

HasPrivate(d) == ~PrivateIPv4(d).err /\ PrivateIPv4(d).ip # EmptyText
HasPublic(d) == ~PublicIPv4(d).err /\ PublicIPv4(d).ip # EmptyText

NoValue == ret.addrs = <<>> /\ ret.str = EmptyText

FullResult(d) ==
    << [Type |-> "Hostname", Address |-> d.Name],
       [Type |-> "InternalIP", Address |-> PrivateIPv4(d).ip],
       [Type |-> "ExternalIP", Address |-> PublicIPv4(d).ip] >>

----------------------------------------------------------------------------
(* Properties *)

\* C1 as stated: every operation that looks a record up returns an error and no
\* value when the record lacks a non-empty private or public IPv4.
C1_AsStated ==
    (pc = "done" /\ LookedUp /\ ~(HasPrivate(Record) /\ HasPublic(Record)))
        => (ret.err # NoErr /\ NoValue)

\* C1 as amended: a looked-up record lacking a non-empty private or public IPv4
\* makes only NodeAddresses and NodeAddressesByProviderID fail (MissingAddress,
\* no addresses); InstanceTypeByProviderID and InstanceType still return its size
\* classifier and InstanceID/ExternalID its ID in decimal, with no error.
C1_Amended ==
    (pc = "done" /\ LookedUp /\ ~(HasPrivate(Record) /\ HasPublic(Record)))
        => /\ op \in AddressOps => (ErrorKind(ret.err) = "MissingAddress" /\ NoValue)
           /\ op \in {"InstanceTypeByProviderID", "InstanceType"}
                => (ret.err = NoErr /\ ret.str = Record.SizeSlug)
           /\ op \in IdByNameOps => (ret.err = NoErr /\ IsDecimalOf(ret.str, Record.ID))

C1_Witness ==
    /\ pc = "done" /\ op = "InstanceID" /\ LookedUp
    /\ ~HasPrivate(Record) /\ ~HasPublic(Record)
    /\ ret.err = NoErr /\ ret.str = <<"4", "2">>

\* C2: for a numeric provider ID whose record is fetched (no error, status 200)
\* and has a non-empty private and public IPv4, NodeAddressesByProviderID returns
\* exactly (hostname, name), (internal-ip, private), (external-ip, public), no error.
C2_FixedOrder ==
    (/\ pc = "done" /\ op = "NodeAddressesByProviderID"
     /\ IsIntegerText(providerId) /\ GetOK
     /\ HasPrivate(getResp.droplet) /\ HasPublic(getResp.droplet))
        => /\ ret.err = NoErr
           /\ Len(ret.addrs) = 3
           /\ ret.addrs[1] = [Type |-> "Hostname", Address |-> getResp.droplet.Name]
           /\ ret.addrs[2] = [Type |-> "InternalIP", Address |-> PrivateIPv4(getResp.droplet).ip]
           /\ ret.addrs[3] = [Type |-> "ExternalIP", Address |-> PublicIPv4(getResp.droplet).ip]

C2_Witness ==
    /\ pc = "done" /\ op = "NodeAddressesByProviderID" /\ providerId = <<"4", "2">>
    /\ ret.err = NoErr
    /\ ret.addrs = << [Type |-> "Hostname", Address |-> NameLower],
                      [Type |-> "InternalIP", Address |-> PrivateAddr],
                      [Type |-> "ExternalIP", Address |-> PublicAddr] >>

\* C3: NodeAddresses and NodeAddressesByProviderID return either the full
\* three-entry result with no error or an error with no addresses; a record with
\* a private IPv4 but no public IPv4 yields MissingAddress and no addresses.
C3_NoPartialResult ==
    (pc = "done" /\ op \in AddressOps)
        => /\ \/ (ret.err = NoErr /\ GetOK /\ ret.addrs = FullResult(getResp.droplet)
                  /\ \A i \in 1..3 : ret.addrs[i].Address # EmptyText)
              \/ (ret.err # NoErr /\ ret.addrs = <<>>)
           /\ (GetOK /\ HasPrivate(getResp.droplet) /\ ~HasPublic(getResp.droplet))
                => (ErrorKind(ret.err) = "MissingAddress" /\ ret.addrs = <<>>)

C3_Witness ==
    /\ pc = "done" /\ op = "NodeAddressesByProviderID" /\ GetOK
    /\ HasPrivate(getResp.droplet) /\ ~HasPublic(getResp.droplet)
    /\ ret.err = "could not get public ip" /\ ret.addrs = <<>>

\* C4: for a provider ID that is no integer, NodeAddressesByProviderID and
\* InstanceTypeByProviderID fail with InvalidID and at no point of the invocation
\* has a call to the Cloud API Client been issued.
C4_InvalidIDBeforeAnyCall ==
    (op \in ByIdOps /\ ~IsIntegerText(providerId))
        => /\ pc = "done"
           /\ trace = <<>>
           /\ ErrorKind(ret.err) = "InvalidID"
           /\ NoValue

C4_Witness ==
    /\ pc = "done" /\ op = "InstanceTypeByProviderID" /\ providerId = <<"4", "x">>
    /\ ret.err = "error converting droplet id to string" /\ trace = <<>>

C6_FirstExactMatch ==
    (pc = "done" /\ op \in ByNameOps /\ ListOK /\ Matches # {})
        => /\ ret.err = NoErr
           /\ op \in IdByNameOps => IsDecimalOf(ret.str, FirstMatch.ID)
           /\ op = "InstanceType" => ret.str = FirstMatch.SizeSlug

C6_Witness ==
    /\ pc = "done" /\ op = "InstanceID" /\ ListOK
    /\ Matches = {1, 2}
    /\ listResp.droplets[1].ID = 7 /\ listResp.droplets[2].ID = 42
    /\ ret.str = <<"7">>

\* C7: an answer of get or list with no error but a status other than 200 makes
\* the calling operation return UpstreamError and no result, whatever record or
\* list the answer holds.
C7_Non200IsFailure ==
    /\ (pc = "done" /\ GetAnswered /\ ~getResp.err /\ getResp.StatusCode # StatusOK)
         => (ErrorKind(ret.err) = "UpstreamError" /\ NoValue)
    /\ (pc = "done" /\ ListAnswered /\ ~listResp.err /\ listResp.StatusCode # StatusOK)
         => (ErrorKind(ret.err) = "UpstreamError" /\ NoValue)

C7_Witness ==
    /\ pc = "done" /\ op = "InstanceTypeByProviderID"
    /\ GetAnswered /\ ~getResp.err /\ getResp.StatusCode = 404
    /\ HasPrivate(getResp.droplet) /\ HasPublic(getResp.droplet)
    /\ ret.err = "DO API returned non-200 status code"

\* C8: NodeAddresses first fetches its own ID from the metadata endpoint and then
\* delegates to resolve-by-id with the fetched text; a failed fetch ends it with
\* MetadataUnavailable and no Cloud API call; a get is issued only after a
\* successful fetch.
C8_MetadataFirst ==
    op = "NodeAddresses"
        => /\ ~Issued("Droplets.List")
           /\ (MetaAnswered /\ ~MetaOK)
                => /\ pc = "done"
                   /\ trace = <<"http.Get">>
                   /\ ErrorKind(ret.err) = "MetadataUnavailable"
                   /\ NoValue
           /\ (pc = "Droplets.Get" \/ GetAnswered)
                => /\ MetaOK
                   /\ trace[1] = "http.Get"
                   /\ providerId = metaResp.body
           /\ GetAnswered => trace = <<"http.Get", "Droplets.Get">>

C8_Witness ==
    /\ pc = "done" /\ op = "NodeAddresses"
    /\ MetaAnswered /\ ~metaResp.err /\ metaResp.StatusCode = 404
    /\ IsIntegerText(metaResp.body)
    /\ ret.err = "droplet metadata returned non-200 status code"
    /\ trace = <<"http.Get">>

\* C9: an invocation issues at most one metadata GET and at most one Cloud API
\* Client call, and a failing step ends it with an error: the failed call is the
\* last network call of the invocation.
C9_NoRetry ==
    /\ Count("http.Get") <= 1
    /\ Count("Droplets.Get") + Count("Droplets.List") <= 1
    /\ (MetaAnswered /\ ~MetaOK)
         => (pc = "done" /\ ret.err # NoErr /\ trace[Len(trace)] = "http.Get")
    /\ (MetaOK /\ ~IsIntegerText(metaResp.body))
         => (pc = "done" /\ ret.err # NoErr /\ trace[Len(trace)] = "http.Get")
    /\ (GetAnswered /\ ~GetOK)
         => (pc = "done" /\ ret.err # NoErr /\ trace[Len(trace)] = "Droplets.Get")
    /\ (ListAnswered /\ ~ListOK)
         => (pc = "done" /\ ret.err # NoErr /\ trace[Len(trace)] = "Droplets.List")
    /\ ret.err # NoErr => pc = "done"

C9_Witness ==
    /\ pc = "done" /\ op = "NodeAddresses"
    /\ trace = <<"http.Get", "Droplets.Get">>
    /\ getResp.err /\ ret.err = "Droplets.Get error"

\* C10: NodeAddresses ignores its node-name argument: the ID it looks up is the
\* one the metadata endpoint reports, and its outcome is decided by the metadata
\* answer and the Cloud API answer alone, the addresses being those of the record
\* fetched for that ID whatever name was asked for.
C10_NameIgnored ==
    op = "NodeAddresses"
        => /\ (pc = "Droplets.Get" \/ GetAnswered)
                => /\ IsIntegerText(metaResp.body)
                   /\ getArg = IntegerValue(metaResp.body)
           /\ pc = "done"
                => /\ ~MetaOK => ErrorKind(ret.err) = "MetadataUnavailable"
                   /\ (MetaOK /\ ~IsIntegerText(metaResp.body))
                        => ErrorKind(ret.err) = "InvalidID"
                   /\ (MetaOK /\ IsIntegerText(metaResp.body) /\ ~GetOK)
                        => ErrorKind(ret.err) = "UpstreamError"
                   /\ (GetOK /\ ~(HasPrivate(getResp.droplet) /\ HasPublic(getResp.droplet)))
                        => ErrorKind(ret.err) = "MissingAddress"
                   /\ (GetOK /\ HasPrivate(getResp.droplet) /\ HasPublic(getResp.droplet))
                        => (ret.err = NoErr /\ ret.addrs = FullResult(getResp.droplet))
                   /\ ret.err # NoErr => NoValue

C10_Witness ==
    /\ pc = "done" /\ op = "NodeAddresses" /\ nodeName = NameDigit
    /\ metaResp.body = <<"4", "2">> /\ getArg = 42
    /\ ret.err = NoErr
    /\ ret.addrs[1].Address = NameUpper

====
